---- MODULE Spec2Model ----
(***************************************************************************)
(* Barber Booking API (src/main.py): the appointment collection, the       *)
(* availability check, the create / cancel / list handlers, the privacy    *)
(* masks, and the barber and service catalogs with their startup seed.     *)
(*                                                                         *)
(* A Python str that the code looks into (customer name, phone, notes) is  *)
(* a sequence of one-character strings.                                    *)
(* Instants are integers counting minutes.  The appointment collection is  *)
(* a sequence in insertion order; a document's _id is its position, since  *)
(* no handler ever deletes a document.  Every handler is split at its      *)
(* document-store calls, which are the points where FastAPI's worker       *)
(* threads can interleave.                                                 *)
(***************************************************************************)
EXTENDS Integers, Sequences, FiniteSets, TLC

\* ------------------------------------------------------------------ bounds
NumRequests == 2        \* worker threads serving requests at the same time
MaxAppointments == 2    \* documents the appointment collection may hold
MaxClock == 1           \* instants the wall clock runs through (0..MaxClock)

\* ------------------------------------------------------------------ inputs
Requests == 1..NumRequests
Barbers == {"b1", "b2"}
StartTimes == {0, 5}
\* durations of the create requests, within the range 5..240 the schema names
DurationInputs == {5, 10}
\* check_availability's duration_min is a plain int query parameter: the
\* degenerate values (zero, negative) are among its inputs
CheckDurationInputs == {-5, 0, 5, 10}
JoSmith == <<"J", "o", " ", "S", "m", "i", "t", "h">>
Phone5551234567 == <<"5", "5", "5", "-", "1", "2", "3", "-", "4", "5", "6", "7">>
Jo == <<"J", "o">>
Phone12 == <<"1", "2">>
CustomerNames == {Jo}
CustomerPhones == {Phone12}
ServiceNames == {"Haircut"}
\* notes: Optional[str] = None
NotesInputs == {<<>>}
\* appointment_id path parameters: 0 stands for a string that is no ObjectId,
\* MaxAppointments + 1 is always an identity the store does not hold.
IdInputs == 0..(MaxAppointments + 1)
\* barber_id query parameter of the listing: "" stands for an absent or empty
\* value, which the handler takes as no filter
BarberFilters == {""} \cup Barbers

Null == <<>>

VARIABLES
    appointment,   \* db["appointment"]: sequence of documents
    barber,        \* db["barber"]: sequence of documents
    service,       \* db["service"]: sequence of documents
    startups,      \* how many times the process has started (seed_defaults runs)
    now,           \* the wall clock read by datetime.utcnow()
    pc,            \* pc[r]: where worker r stands in its handler
    frame,         \* frame[r]: the handler's locals (data, _id / oid)
    response       \* what the step just taken returned to its caller

catalog == <<barber, service, startups>>

vars == <<appointment, barber, service, startups, now, pc, frame, response>>

\* ------------------------------------------------------ request / response
AppointmentIn(customer_name, customer_phone, barber_id, service_name, start_time, duration_min, notes) ==
    [customer_name |-> customer_name, customer_phone |-> customer_phone,
     barber_id |-> barber_id, service_name |-> service_name,
     start_time |-> start_time, duration_min |-> duration_min, notes |-> notes]

Bodies ==
    { AppointmentIn(n, p, b, sv, s, d, nt) :
        n \in CustomerNames, p \in CustomerPhones, b \in Barbers,
        sv \in ServiceNames, s \in StartTimes, d \in DurationInputs,
        nt \in NotesInputs }

NoFrame == [data |-> Null, id |-> 0]
NoResponse == [op |-> "none", code |-> 0, req |-> Null, body |-> Null]

\* ------------------------------------------------------------ store layer
\* mutant: the duration taken as hours, timedelta(hours=duration_min)
timedelta_hours(start, duration_min) == start + 60 * duration_min

\* datetime + timedelta(minutes=duration_min)
timedelta(start, duration_min) == start + duration_min

\* first document, in storage order, among the matching positions (0: none)
find_one(matching) ==
    IF matching = {} THEN 0
    ELSE CHOOSE i \in matching : \A j \in matching : i <= j

\* mutant: the barber test left out of the filter
check_filter_any_barber(doc, barber_id, start, end) ==
    /\ doc.status # "canceled"
    /\ doc.start_time < end
    /\ doc.end_time > start

\* mutant: the status test left out of the filter
check_filter_ignores_status(doc, barber_id, start, end) ==
    /\ doc.barber_id = barber_id
    /\ doc.start_time < end
    /\ doc.end_time > start

\* mutant: "$lte" for "$lt", a closed interval end
check_filter_inclusive(doc, barber_id, start, end) ==
    /\ doc.barber_id = barber_id
    /\ doc.status # "canceled"
    /\ doc.start_time <= end
    /\ doc.end_time > start

\* the filter of check_availability's find_one
check_filter(doc, barber_id, start, end) ==
    /\ doc.barber_id = barber_id
    /\ doc.status # "canceled"
    /\ doc.start_time < end
    /\ doc.end_time > start

\* mutant: end_time compared with the candidate's end instead of its start
create_filter_wrong_end(doc, barber_id, start, end) ==
    /\ doc.barber_id = barber_id
    /\ doc.status # "canceled"
    /\ doc.start_time < end
    /\ doc.end_time > end

\* mutant: the status test left out of the filter
create_filter_ignores_status(doc, barber_id, start, end) ==
    /\ doc.barber_id = barber_id
    /\ doc.start_time < end
    /\ doc.end_time > start

\* the filter of create_appointment's find_one
create_filter(doc, barber_id, start, end) ==
    /\ doc.barber_id = barber_id
    /\ doc.status # "canceled"
    /\ doc.start_time < end
    /\ doc.end_time > start

\* check_availability's conflict lookup on collection coll
check_conflict(coll, barber_id, start_time, duration_min) ==
    LET start == start_time
        end == timedelta(start, duration_min)
    IN find_one({i \in DOMAIN coll : check_filter(coll[i], barber_id, start, end)})

\* the value of {"available": conflict is None}
available(coll, barber_id, start_time, duration_min) ==
    check_conflict(coll, barber_id, start_time, duration_min) = 0

\* create_appointment's conflict lookup on collection coll
create_conflict(coll, body) ==
    LET start == body.start_time
        end == timedelta(start, body.duration_min)
    IN find_one({i \in DOMAIN coll : create_filter(coll[i], body.barber_id, start, end)})

\* data = body.model_dump(); data["end_time"] = end; data["status"] = "booked"
create_data(body) ==
    [customer_name |-> body.customer_name, customer_phone |-> body.customer_phone,
     barber_id |-> body.barber_id, service_name |-> body.service_name,
     start_time |-> body.start_time, duration_min |-> body.duration_min,
     notes |-> body.notes,
     end_time |-> timedelta(body.start_time, body.duration_min),
     status |-> "booked"]

\* create(collection, document) -> id: the document is appended as given, with
\* no updated-at instant yet; the new identity is its position.
create_document(coll, data) ==
    Append(coll, [customer_name |-> data.customer_name,
                  customer_phone |-> data.customer_phone,
                  barber_id |-> data.barber_id, service_name |-> data.service_name,
                  start_time |-> data.start_time, duration_min |-> data.duration_min,
                  notes |-> data.notes, end_time |-> data.end_time,
                  status |-> data.status, updated_at |-> Null])

\* ObjectId(appointment_id) raises InvalidId on a malformed string
ObjectIdValid(appointment_id) == appointment_id > 0

\* mutant: the wrong status constant written by the cancel
cancel_set_completed(doc, instant) ==
    [doc EXCEPT !.status = "completed", !.updated_at = <<instant>>]

\* {"$set": {"status": "canceled", "updated_at": datetime.utcnow()}}
cancel_set(doc, instant) ==
    [doc EXCEPT !.status = "canceled", !.updated_at = <<instant>>]

\* mutant: the update applied to every document of the collection
update_many(coll, oid, instant) ==
    IF oid \in DOMAIN coll
    THEN [i \in DOMAIN coll |-> cancel_set(coll[i], instant)]
    ELSE coll

\* update_one({"_id": oid}, {"$set": ...}) on collection coll
update_one(coll, oid, instant) ==
    IF oid \in DOMAIN coll
    THEN [coll EXCEPT ![oid] = cancel_set(coll[oid], instant)]
    ELSE coll

\* res.modified_count: the documents the update actually changed
modified_count(coll, oid, instant) ==
    IF oid \in DOMAIN coll /\ cancel_set(coll[oid], instant) # coll[oid]
    THEN 1 ELSE 0

\* ---------------------------------------------------------- privacy helpers
\* the characters str.strip() removes from both ends
IsSpace(c) == c \in {" ", "\t"}

\* str.isdigit() of one character
IsDigit(c) == c \in {"0", "1", "2", "3", "4", "5", "6", "7", "8", "9"}

RECURSIVE lstrip(_)
lstrip(str) ==
    IF str # <<>> /\ IsSpace(Head(str)) THEN lstrip(Tail(str)) ELSE str

RECURSIVE rstrip(_)
rstrip(str) ==
    IF str # <<>> /\ IsSpace(str[Len(str)])
    THEN rstrip(SubSeq(str, 1, Len(str) - 1))
    ELSE str

\* name.strip()
strip(str) == rstrip(lstrip(str))

\* str.split(sep): the pieces between the occurrences of sep, empty ones kept
RECURSIVE split(_, _)
split(str, sep) ==
    IF \A i \in DOMAIN str : str[i] # sep
    THEN <<str>>
    ELSE LET k == CHOOSE i \in DOMAIN str :
                      /\ str[i] = sep
                      /\ \A j \in DOMAIN str : j < i => str[j] # sep
         IN <<SubSeq(str, 1, k - 1)>> \o split(SubSeq(str, k + 1, Len(str)), sep)

NonEmpty(p) == p # <<>>

\* [p for p in name.strip().split(" ") if p]
name_parts(name) == SelectSeq(split(strip(name), " "), NonEmpty)

\* p[0] + "*" if len(p) <= 2 else p[0] + "***"
mask_part(p) ==
    IF Len(p) <= 2 THEN <<p[1], "*">> ELSE <<p[1], "*", "*", "*">>

\* sep.join(parts)
RECURSIVE join(_, _)
join(parts, sep) ==
    IF parts = <<>> THEN <<>>
    ELSE IF Len(parts) = 1 THEN parts[1]
    ELSE parts[1] \o <<sep>> \o join(Tail(parts), sep)

Customer == <<"C", "u", "s", "t", "o", "m", "e", "r">>

\* def mask_name(name)
mask_name(name) ==
    LET parts == name_parts(name)
    IN IF parts = <<>> THEN Customer
       ELSE join([i \in DOMAIN parts |-> mask_part(parts[i])], " ")

\* mutant: the digits returned unmasked when there are no more than four
mask_phone_short_plain(phone) ==
    LET digits == SelectSeq(phone, IsDigit)
    IN IF Len(digits) < 4 THEN <<"*", "*", "*">>
       ELSE IF Len(digits) = 4 THEN digits
       ELSE <<"*", "*", "*", "-", "*", "*", "*", "-">>
                \o SubSeq(digits, Len(digits) - 3, Len(digits))

\* def mask_phone(phone)
mask_phone(phone) ==
    LET digits == SelectSeq(phone, IsDigit)
    IN IF Len(digits) < 4 THEN <<"*", "*", "*">>
       ELSE <<"*", "*", "*", "-", "*", "*", "*", "-">>
                \o SubSeq(digits, Len(digits) - 3, Len(digits))

\* find_many(collection, filter): the matching documents with their positions,
\* in storage order
get_documents(coll, barber_id) ==
    LET keep == {i \in DOMAIN coll : barber_id = "" \/ coll[i].barber_id = barber_id}
        pick[n \in 0..Len(coll)] ==
            IF n = 0 THEN <<>>
            ELSE IF n \in keep THEN Append(pick[n - 1], <<n, coll[n]>>)
            ELSE pick[n - 1]
    IN pick[Len(coll)]

\* mutant: the listing leaves the notes as stored
sanitize_keeps_notes(item) ==
    [id |-> item[1],
     customer_name |-> mask_name(item[2].customer_name),
     customer_phone |-> mask_phone(item[2].customer_phone),
     barber_id |-> item[2].barber_id, service_name |-> item[2].service_name,
     start_time |-> item[2].start_time, duration_min |-> item[2].duration_min,
     end_time |-> item[2].end_time, status |-> item[2].status,
     updated_at |-> item[2].updated_at, notes |-> item[2].notes]

\* the loop body of list_appointments: serialize, mask name and phone, null notes
sanitize(item) ==
    [id |-> item[1],
     customer_name |-> mask_name(item[2].customer_name),
     customer_phone |-> mask_phone(item[2].customer_phone),
     barber_id |-> item[2].barber_id, service_name |-> item[2].service_name,
     start_time |-> item[2].start_time, duration_min |-> item[2].duration_min,
     end_time |-> item[2].end_time, status |-> item[2].status,
     updated_at |-> item[2].updated_at, notes |-> Null]

\* the list list_appointments returns for the optional barber filter ("": none)
sanitized(coll, barber_id) ==
    LET items == get_documents(coll, barber_id)
    IN [k \in DOMAIN items |-> sanitize(items[k])]

\* ------------------------------------------------------------------ catalog
BarberDoc(name) == [name |-> name, bio |-> "Pro barber"]

default_barbers == <<"John Fade", "Lisa Shear", "Mike Lineup">>

default_services ==
    << [name |-> "Haircut", duration_min |-> 30, price |-> 18],
       [name |-> "Beard Trim", duration_min |-> 15, price |-> 15],
       [name |-> "Haircut + Beard", duration_min |-> 45, price |-> 35] >>

\* create(collection, document) -> id on a catalog collection
create_catalog_document(coll, data) == Append(coll, data)

\* mutant: the count always answers 0
count_documents_zero(coll, name) == 0

\* db["barber"].count_documents({"name": name})
count_documents(coll, name) ==
    Cardinality({i \in DOMAIN coll : coll[i].name = name})

\* the first loop of seed_defaults, over names[k..]
RECURSIVE seed_barbers(_, _, _)
seed_barbers(coll, names, k) ==
    IF k > Len(names) THEN coll
    ELSE seed_barbers(
            IF count_documents(coll, names[k]) = 0
            THEN create_catalog_document(coll, BarberDoc(names[k]))
            ELSE coll,
            names, k + 1)

\* db["service"].find_one({"name": name}): position of the first match, 0: none
find_service(coll, name) ==
    find_one({i \in DOMAIN coll : coll[i].name = name})

\* the body of the second loop of seed_defaults for the default service s
seed_service(coll, s) ==
    LET existing == find_service(coll, s.name)
    IN IF existing = 0 THEN create_catalog_document(coll, s)
       ELSE IF s.name = "Haircut"
            THEN [coll EXCEPT ![existing].price = 18,
                              ![existing].duration_min = s.duration_min]
            ELSE coll

\* the second loop of seed_defaults, over defaults[k..]
RECURSIVE seed_services(_, _, _)
seed_services(coll, defaults, k) ==
    IF k > Len(defaults) THEN coll
    ELSE seed_services(seed_service(coll, defaults[k]), defaults, k + 1)

\* ---------------------------------------------------------------- workers
\* A new request is taken by the lowest idle worker (the workers are
\* interchangeable, so this only names them).
Free(r) ==
    /\ pc[r] = "idle"
    /\ \A q \in Requests : q < r => pc[q] # "idle"

PendingInserts == Cardinality({q \in Requests : pc[q] = "create_insert"})

\* the state once the process has started on an empty database: seed_defaults
\* has run, no appointment is stored, no request is in flight
Init ==
    /\ appointment = <<>>
    /\ barber = seed_barbers(<<>>, default_barbers, 1)
    /\ service = seed_services(<<>>, default_services, 1)
    /\ startups = 1
    /\ now = 0
    /\ pc = [r \in Requests |-> "idle"]
    /\ frame = [r \in Requests |-> NoFrame]
    /\ response = NoResponse

\* the wall clock advances
Tick ==
    /\ now < MaxClock
    /\ now' = now + 1
    /\ response' = NoResponse
    /\ UNCHANGED <<appointment, pc, frame>>
    /\ UNCHANGED catalog

\* GET /api/appointments/check with parameters among the given sets
check_availability_from(r, barbers, starts, durations) ==
    /\ Free(r)
    /\ \E b \in barbers, s \in starts, d \in durations :
          response' = [op |-> "check", code |-> 200, req |-> <<b, s, d>>,
                       body |-> <<available(appointment, b, s, d)>>]
    /\ UNCHANGED <<appointment, now, pc, frame>>
    /\ UNCHANGED catalog

\* GET /api/appointments/check
check_availability(r) ==
    check_availability_from(r, Barbers, StartTimes, CheckDurationInputs)

\* mutant: the document is written before the conflict is looked at
create_appointment_lookup_writes(r) ==
    /\ Free(r)
    /\ \E body \in Bodies :
          /\ Len(appointment) + PendingInserts < MaxAppointments
          /\ appointment' = create_document(appointment, create_data(body))
          /\ IF create_conflict(appointment, body) # 0
             THEN /\ response' = [op |-> "create", code |-> 400,
                                  req |-> <<body.barber_id, body.start_time,
                                            body.duration_min>>,
                                  body |-> <<"Time slot not available">>]
                  /\ UNCHANGED <<pc, frame>>
             ELSE /\ pc' = [pc EXCEPT ![r] = "create_reread"]
                  /\ frame' = [frame EXCEPT ![r] = [data |-> Null,
                                                    id |-> Len(appointment) + 1]]
                  /\ response' = NoResponse
    /\ UNCHANGED now
    /\ UNCHANGED catalog

\* POST /api/appointments with a body among bodies, up to the conflict lookup
\* and its outcome
create_appointment_lookup_from(r, bodies) ==
    /\ Free(r)
    /\ \E body \in bodies :
          IF create_conflict(appointment, body) # 0
          THEN /\ response' = [op |-> "create", code |-> 400,
                               req |-> <<body.barber_id, body.start_time,
                                         body.duration_min>>,
                               body |-> <<"Time slot not available">>]
               /\ UNCHANGED <<pc, frame>>
          ELSE /\ Len(appointment) + PendingInserts < MaxAppointments
               /\ pc' = [pc EXCEPT ![r] = "create_insert"]
               /\ frame' = [frame EXCEPT ![r] = [data |-> <<create_data(body)>>,
                                                 id |-> 0]]
               /\ response' = NoResponse
    /\ UNCHANGED <<appointment, now>>
    /\ UNCHANGED catalog

\* POST /api/appointments, up to the conflict lookup and its outcome
create_appointment_lookup(r) == create_appointment_lookup_from(r, Bodies)

\* _id = create_document("appointment", data)
create_appointment_insert(r) ==
    /\ pc[r] = "create_insert"
    /\ appointment' = create_document(appointment, frame[r].data[1])
    /\ pc' = [pc EXCEPT ![r] = "create_reread"]
    /\ frame' = [frame EXCEPT ![r] = [data |-> Null, id |-> Len(appointment) + 1]]
    /\ response' = NoResponse
    /\ UNCHANGED now
    /\ UNCHANGED catalog

\* doc = find_one({"_id": ObjectId(_id)}); return serialize(doc)
create_appointment_reread(r) ==
    /\ pc[r] = "create_reread"
    /\ response' = [op |-> "create", code |-> 200, req |-> <<frame[r].id>>,
                    body |-> <<appointment[frame[r].id]>>]
    /\ pc' = [pc EXCEPT ![r] = "idle"]
    /\ frame' = [frame EXCEPT ![r] = NoFrame]
    /\ UNCHANGED <<appointment, now>>
    /\ UNCHANGED catalog

\* PATCH /api/appointments/{id}/cancel, up to the update and its outcome
cancel_appointment_update(r) ==
    /\ Free(r)
    /\ \E appointment_id \in IdInputs :
          IF ~ObjectIdValid(appointment_id)
          THEN /\ response' = [op |-> "cancel", code |-> 500,
                               req |-> <<appointment_id>>, body |-> <<"InvalidId">>]
               /\ UNCHANGED <<appointment, pc, frame>>
          ELSE /\ appointment' = update_one(appointment, appointment_id, now)
               /\ IF modified_count(appointment, appointment_id, now) = 0
                  THEN /\ response' = [op |-> "cancel", code |-> 404,
                                       req |-> <<appointment_id>>,
                                       body |-> <<"Appointment not found">>]
                       /\ UNCHANGED <<pc, frame>>
                  ELSE /\ pc' = [pc EXCEPT ![r] = "cancel_reread"]
                       /\ frame' = [frame EXCEPT ![r] = [data |-> Null,
                                                         id |-> appointment_id]]
                       /\ response' = NoResponse
    /\ UNCHANGED now
    /\ UNCHANGED catalog

\* doc = find_one({"_id": oid}); return serialize(doc)
cancel_appointment_reread(r) ==
    /\ pc[r] = "cancel_reread"
    /\ response' = [op |-> "cancel", code |-> 200, req |-> <<frame[r].id>>,
                    body |-> <<appointment[frame[r].id]>>]
    /\ pc' = [pc EXCEPT ![r] = "idle"]
    /\ frame' = [frame EXCEPT ![r] = NoFrame]
    /\ UNCHANGED <<appointment, now>>
    /\ UNCHANGED catalog

\* mutant: the listing writes the sanitized records back to the collection
list_appointments_saves(r, filters) ==
    /\ Free(r)
    /\ \E barber_id \in filters :
          /\ response' = [op |-> "list", code |-> 200, req |-> <<barber_id>>,
                          body |-> sanitized(appointment, barber_id)]
          /\ appointment' =
                [i \in DOMAIN appointment |->
                    IF barber_id = "" \/ appointment[i].barber_id = barber_id
                    THEN [appointment[i] EXCEPT
                            !.customer_name = mask_name(appointment[i].customer_name)]
                    ELSE appointment[i]]
    /\ UNCHANGED <<now, pc, frame>>
    /\ UNCHANGED catalog

\* GET /api/appointments with the barber_id parameter among filters
list_appointments_from(r, filters) ==
    /\ Free(r)
    /\ \E barber_id \in filters :
          response' = [op |-> "list", code |-> 200, req |-> <<barber_id>>,
                       body |-> sanitized(appointment, barber_id)]
    /\ UNCHANGED <<appointment, now, pc, frame>>
    /\ UNCHANGED catalog

\* GET /api/appointments
list_appointments(r) == list_appointments_from(r, BarberFilters)

\* a document-store call of worker r raises: the exception leaves the handler
\* and the caller gets a 500
store_call_fails(r) ==
    /\ \/ /\ Free(r)
          /\ \E op \in {"check", "create", "cancel", "list"} :
                response' = [op |-> op, code |-> 500, req |-> Null,
                             body |-> <<"StoreUnavailable">>]
       \/ /\ pc[r] = "create_insert"
          /\ response' = [op |-> "create", code |-> 500, req |-> Null,
                          body |-> <<"StoreUnavailable">>]
       \/ /\ pc[r] = "create_reread"
          /\ response' = [op |-> "create", code |-> 500, req |-> <<frame[r].id>>,
                          body |-> <<"StoreUnavailable">>]
       \/ /\ pc[r] = "cancel_reread"
          /\ response' = [op |-> "cancel", code |-> 500, req |-> <<frame[r].id>>,
                          body |-> <<"StoreUnavailable">>]
    /\ pc' = [pc EXCEPT ![r] = "idle"]
    /\ frame' = [frame EXCEPT ![r] = NoFrame]
    /\ UNCHANGED <<appointment, now>>
    /\ UNCHANGED catalog

Step(r) ==
    \/ check_availability(r)
    \/ list_appointments(r)
    \/ create_appointment_lookup(r)
    \/ create_appointment_insert(r)
    \/ create_appointment_reread(r)
    \/ cancel_appointment_update(r)
    \/ cancel_appointment_reread(r)

\* requests served concurrently: the store calls of different workers interleave
Next == Tick \/ \E r \in Requests : Step(r)

Spec == Init /\ [][Next]_vars

\* requests served one at a time: a worker steps only while every other is idle
Exclusive(r) == \A q \in Requests \ {r} : pc[q] = "idle"

NextSeq ==
    \/ Tick
    \/ \E r \in Requests : Exclusive(r) /\ check_availability(r)
    \/ \E r \in Requests : Exclusive(r) /\ create_appointment_lookup(r)
    \/ \E r \in Requests : Exclusive(r) /\ create_appointment_insert(r)
    \/ \E r \in Requests : Exclusive(r) /\ create_appointment_reread(r)
    \/ \E r \in Requests : Exclusive(r) /\ cancel_appointment_update(r)
    \/ \E r \in Requests : Exclusive(r) /\ cancel_appointment_reread(r)

SpecSeq == Init /\ [][NextSeq]_vars

\* requests of all workers interleaving within one clock instant, all on the
\* calendar of one barber at one start time
RaceBodies == {body \in Bodies : body.barber_id = "b1" /\ body.start_time = 0}

NextRace ==
    \E r \in Requests :
        \/ check_availability_from(r, {"b1"}, {0}, {5})
        \/ list_appointments_from(r, {"", "b1"})
        \/ create_appointment_lookup_from(r, RaceBodies)
        \/ create_appointment_insert(r)
        \/ create_appointment_reread(r)
        \/ cancel_appointment_update(r)
        \/ cancel_appointment_reread(r)

SpecRace == Init /\ [][NextRace]_vars

\* requests served one at a time by a store whose calls may fail
NextFail ==
    \/ NextSeq
    \/ \E r \in Requests : Exclusive(r) /\ store_call_fails(r)

SpecFail == Init /\ [][NextFail]_vars

\* the bounds schemas.Appointment puts on duration_min (ge=5, le=240)
MinDuration == 5
MaxDuration == 240

\* what AppointmentIn lets through as duration_min: any int
RawDurationInputs == {0 - MinDuration, 0, MinDuration, MaxDuration + MinDuration}

RawBodies ==
    { AppointmentIn(n, p, b, sv, s, d, nt) :
        n \in CustomerNames, p \in CustomerPhones, b \in Barbers,
        sv \in ServiceNames, s \in StartTimes, d \in RawDurationInputs,
        nt \in NotesInputs }

\* requests served one at a time, the create bodies as AppointmentIn parses them
NextRaw ==
    \/ Tick
    \/ \E r \in Requests : Exclusive(r) /\ check_availability(r)
    \/ \E r \in Requests : Exclusive(r) /\ create_appointment_lookup_from(r, RawBodies)
    \/ \E r \in Requests : Exclusive(r) /\ create_appointment_insert(r)
    \/ \E r \in Requests : Exclusive(r) /\ create_appointment_reread(r)
    \/ \E r \in Requests : Exclusive(r) /\ cancel_appointment_update(r)
    \/ \E r \in Requests : Exclusive(r) /\ cancel_appointment_reread(r)

SpecRaw == Init /\ [][NextRaw]_vars

\* customers whose name, phone and notes the listing has to hide
ListCustomers == {<<JoSmith, Phone5551234567>>, <<Jo, Phone12>>}
ListNotes == {Null, <<"x">>}

ListBodies ==
    { AppointmentIn(c[1], c[2], b, sv, s, MinDuration, nt) :
        c \in ListCustomers, b \in Barbers, sv \in ServiceNames,
        s \in StartTimes, nt \in ListNotes }

\* bookings and listings, one request at a time
NextList ==
    \/ \E r \in Requests : Exclusive(r) /\ create_appointment_lookup_from(r, ListBodies)
    \/ \E r \in Requests : Exclusive(r) /\ create_appointment_insert(r)
    \/ \E r \in Requests : Exclusive(r) /\ create_appointment_reread(r)
    \/ \E r \in Requests : Exclusive(r) /\ list_appointments(r)

SpecList == Init /\ [][NextList]_vars

\* the strings the privacy helpers are applied to: every string up to a
\* length over a small alphabet, and some longer examples
MaxNameLen == 3
MaxPhoneLen == 4

Letters == {"J", "o", "S", "m", "i", "t", "h"}
NameAlphabet == {"J", "o", " ", "\t", "*"}
PhoneAlphabet == {"5", "7", "-", "*"}

Strings(alphabet, n) == UNION {[1..k -> alphabet] : k \in 0..n}

MaskedPhone4567 == <<"*", "*", "*", "-", "*", "*", "*", "-", "4", "5", "6", "7">>

NameInputs == Strings(NameAlphabet, MaxNameLen) \cup {JoSmith}
PhoneInputs ==
    Strings(PhoneAlphabet, MaxPhoneLen) \cup {Phone5551234567, Phone12, MaskedPhone4567}

\* mask_name(name) is evaluated
call_mask_name ==
    /\ \E name \in NameInputs :
          response' = [op |-> "mask_name", code |-> 200, req |-> <<name>>,
                       body |-> <<mask_name(name)>>]
    /\ UNCHANGED <<appointment, now, pc, frame>>
    /\ UNCHANGED catalog

\* mask_phone(phone) is evaluated
call_mask_phone ==
    /\ \E phone \in PhoneInputs :
          response' = [op |-> "mask_phone", code |-> 200, req |-> <<phone>>,
                       body |-> <<mask_phone(phone)>>]
    /\ UNCHANGED <<appointment, now, pc, frame>>
    /\ UNCHANGED catalog

NextMask == call_mask_name \/ call_mask_phone

SpecMask == Init /\ [][NextMask]_vars

\* the catalog: restarts of the process and the two POST endpoints
MaxStartups == 2
MaxCatalog == 5

BarberNameInputs == {"John Fade", "Al"}
ServiceBodies ==
    { [name |-> n, duration_min |-> 30, price |-> p] :
        n \in {"Haircut", "Shave"}, p \in {18, 25} }

\* the process starts again on the database as it is: seed_defaults runs
seed_defaults ==
    /\ startups < MaxStartups
    /\ \A r \in Requests : pc[r] = "idle"
    /\ barber' = seed_barbers(barber, default_barbers, 1)
    /\ service' = seed_services(service, default_services, 1)
    /\ startups' = startups + 1
    /\ response' = [op |-> "seed", code |-> 200, req |-> Null, body |-> Null]
    /\ UNCHANGED <<appointment, now, pc, frame>>

\* POST /api/barbers, its insert and re-read with no other request between
add_barber ==
    /\ Len(barber) < MaxCatalog
    /\ \E name \in BarberNameInputs :
          /\ barber' = create_catalog_document(barber, BarberDoc(name))
          /\ response' = [op |-> "add_barber", code |-> 200, req |-> Null,
                          body |-> <<Len(barber) + 1, BarberDoc(name)>>]
    /\ UNCHANGED <<appointment, service, startups, now, pc, frame>>

\* POST /api/services, its insert and re-read with no other request between
add_service ==
    /\ Len(service) < MaxCatalog
    /\ \E body \in ServiceBodies :
          /\ service' = create_catalog_document(service, body)
          /\ response' = [op |-> "add_service", code |-> 200, req |-> Null,
                          body |-> <<Len(service) + 1, body>>]
    /\ UNCHANGED <<appointment, barber, startups, now, pc, frame>>

NextSeed == seed_defaults \/ add_barber \/ add_service

SpecSeed == Init /\ [][NextSeed]_vars

\* ------------------------------------------------------------ properties
Live(doc) == doc.status # "canceled"

\* half-open intervals [start_time, end_time) of two documents intersect
Overlap(a, b) == a.start_time < b.end_time /\ b.start_time < a.end_time

\* some live appointment of the barber intersects [start, start + duration)
LiveOverlapExists(barber_id, start, duration_min) ==
    \E i \in DOMAIN appointment :
        /\ appointment[i].barber_id = barber_id
        /\ appointment[i].status # "canceled"
        /\ appointment[i].start_time < start + duration_min
        /\ appointment[i].end_time > start

AllDurations == DurationInputs \cup CheckDurationInputs

BodyOf(barber_id, start_time, duration_min) ==
    AppointmentIn(Jo, Phone12, barber_id, "Haircut",
                  start_time, duration_min, Null)

\* C1: with the store calls of concurrent create requests interleaving, the
\* store never holds two live appointments of one barber whose intervals
\* overlap (of two overlapping concurrent creates at most one succeeds).
ConcurrentCreatesExclusive ==
    \A i \in DOMAIN appointment : \A j \in DOMAIN appointment :
        (i < j /\ appointment[i].barber_id = appointment[j].barber_id
               /\ Live(appointment[i]) /\ Live(appointment[j]))
        => ~Overlap(appointment[i], appointment[j])

\* C2: with requests served one at a time, any two distinct live appointments
\* of the same barber have non-overlapping intervals [start_time, end_time).
NoOverlapInvariant ==
    \A i, j \in DOMAIN appointment :
        (i # j /\ appointment[i].barber_id = appointment[j].barber_id
               /\ appointment[i].status # "canceled"
               /\ appointment[j].status # "canceled")
        => ~(/\ appointment[i].start_time < appointment[j].end_time
             /\ appointment[j].start_time < appointment[i].end_time)

\* two live appointments of one barber are stored and an overlapping create
\* has just been refused
NoOverlapWitness ==
    /\ Len(appointment) = 2
    /\ appointment[1].barber_id = appointment[2].barber_id
    /\ Live(appointment[1]) /\ Live(appointment[2])
    /\ response.op = "create" /\ response.code = 400
    /\ response.req[1] = appointment[1].barber_id

\* C3: on every store state and for every barber, start and duration,
\* check_availability answers available = false exactly when
\* create_appointment's conflict lookup finds a conflict (the 400 branch).
CreateCheckConsistent ==
    \A b \in Barbers, s \in StartTimes, d \in AllDurations :
        (~available(appointment, b, s, d))
            <=> (create_conflict(appointment, BodyOf(b, s, d)) # 0)

\* a create has just failed with 400 and the check of the same parameters on
\* the same store answers unavailable
CreateCheckWitness ==
    /\ response.op = "create" /\ response.code = 400
    /\ ~available(appointment, response.req[1], response.req[2], response.req[3])

\* C4: the answer check_availability returns is available = true iff no
\* stored appointment of that barber with a status other than canceled has
\* start_time < start + duration_min and end_time > start.
CheckAvailabilityCorrect ==
    response.op = "check" =>
        (response.body[1] <=>
            ~LiveOverlapExists(response.req[1], response.req[2], response.req[3]))

\* the check answered available although a canceled appointment of the barber
\* and a booked appointment of another barber both intersect the interval
CheckAvailabilityWitness ==
    /\ response.op = "check" /\ response.body[1] = TRUE
    /\ \E i, j \in DOMAIN appointment :
          /\ appointment[i].barber_id = response.req[1]
          /\ appointment[i].status = "canceled"
          /\ appointment[i].start_time < response.req[2] + response.req[3]
          /\ appointment[i].end_time > response.req[2]
          /\ appointment[j].barber_id # response.req[1]
          /\ appointment[j].status = "booked"
          /\ appointment[j].start_time < response.req[2] + response.req[3]
          /\ appointment[j].end_time > response.req[2]

\* C5: a create that fails with 400 "Time slot not available" writes nothing:
\* the appointment collection after the step equals the one before it.
FailedCreateWritesNothing ==
    [][(response'.op = "create" /\ response'.code = 400)
         => appointment' = appointment]_vars

\* a create has just been refused because of a stored booked appointment
FailedCreateWitness ==
    /\ response.op = "create" /\ response.code = 400
    /\ response.body = <<"Time slot not available">>
    /\ \E i \in DOMAIN appointment :
          /\ appointment[i].status = "booked"
          /\ appointment[i].barber_id = response.req[1]

\* C6: every stored appointment has end_time = start_time + duration_min,
\* when created and after every later operation.
EndTimeConsistent ==
    \A i \in DOMAIN appointment :
        appointment[i].end_time
            = appointment[i].start_time + appointment[i].duration_min

\* a 10-minute appointment has been created and then canceled
EndTimeWitness ==
    \E i \in DOMAIN appointment :
        /\ appointment[i].status = "canceled"
        /\ appointment[i].updated_at # Null
        /\ appointment[i].duration_min = 10
        /\ appointment[i].end_time = appointment[i].start_time + 10

\* C7: every appointment enters the store booked, no step removes one, the
\* only status change of a step is booked -> canceled (so canceled is never
\* left), and no status other than booked or canceled is ever stored.
StatusOnlyBookedToCanceled ==
    [][/\ \A i \in DOMAIN appointment :
            /\ i \in DOMAIN appointment'
            /\ appointment'[i].status # appointment[i].status
                  => (/\ appointment[i].status = "booked"
                      /\ appointment'[i].status = "canceled")
       /\ \A i \in DOMAIN appointment' :
            /\ i \notin DOMAIN appointment => appointment'[i].status = "booked"
            /\ appointment'[i].status \in {"booked", "canceled"}]_vars

\* an appointment canceled at instant 0 has been canceled again at instant 1
StatusWitness ==
    /\ now = 1
    /\ response.op = "cancel" /\ response.code = 200
    /\ response.body[1].status = "canceled"
    /\ response.body[1].updated_at = <<1>>
    /\ \E r \in Requests : pc[r] = "idle"

\* the step is a cancel of appointment_id answered 404
Cancel404(appointment_id) ==
    /\ response'.op = "cancel"
    /\ response'.code = 404
    /\ response'.req = <<appointment_id>>

\* the step is a cancel of appointment_id that went past the 404 test
CancelAccepted(appointment_id) ==
    \E r \in Requests :
        /\ pc[r] = "idle"
        /\ pc'[r] = "cancel_reread"
        /\ frame'[r].id = appointment_id

\* C8: a cancel answers 404 exactly when the store holds no appointment of
\* that identity, and then changes nothing; for an identity the store holds,
\* whatever its status, it does not answer 404 and leaves the appointment
\* canceled with updated_at the current instant.
CancelNotFoundExactlyWhenAbsent ==
    [][\A id \in IdInputs :
          ObjectIdValid(id) =>
            /\ Cancel404(id) =>
                  (id \notin DOMAIN appointment /\ appointment' = appointment)
            /\ CancelAccepted(id) =>
                  (/\ id \in DOMAIN appointment
                   /\ appointment'[id].status = "canceled"
                   /\ appointment'[id].updated_at = <<now>>)]_vars

\* C9: a canceled slot is ignored: a create is refused, and a check answers
\* unavailable, only when a live appointment of the barber intersects the
\* requested interval; intersecting canceled appointments alone never does it.
CanceledSlotIgnored ==
    /\ (response.op = "create" /\ response.code = 400)
          => LiveOverlapExists(response.req[1], response.req[2], response.req[3])
    /\ (response.op = "check" /\ response.body[1] = FALSE)
          => LiveOverlapExists(response.req[1], response.req[2], response.req[3])

\* [0,5) was created and canceled, then [0,10) of the same barber was created
CanceledSlotWitness ==
    /\ Len(appointment) = 2
    /\ appointment[1].barber_id = appointment[2].barber_id
    /\ appointment[1].status = "canceled"
    /\ appointment[1].start_time = 0 /\ appointment[1].end_time = 5
    /\ appointment[2].status = "booked"
    /\ appointment[2].start_time = 0 /\ appointment[2].end_time = 10
    /\ response.op = "create" /\ response.code = 200 /\ response.req = <<2>>

\* C10: touching intervals never conflict: a booked appointment [s, e) matches
\* neither conflict filter for a candidate of its barber that starts at e or
\* ends at s; and each filter answers the same when the stored appointment and
\* the candidate swap roles.
TouchingNeverConflicts ==
    \A i \in DOMAIN appointment :
        LET doc == appointment[i] IN
        doc.status = "booked" =>
            \A d \in AllDurations :
                /\ ~check_filter(doc, doc.barber_id, doc.end_time,
                                 timedelta(doc.end_time, d))
                /\ ~create_filter(doc, doc.barber_id, doc.end_time,
                                  timedelta(doc.end_time, d))
                /\ ~check_filter(doc, doc.barber_id, doc.start_time - d,
                                 timedelta(doc.start_time - d, d))
                /\ ~create_filter(doc, doc.barber_id, doc.start_time - d,
                                  timedelta(doc.start_time - d, d))
                /\ \A s \in StartTimes :
                      LET cand == create_data(BodyOf(doc.barber_id, s, d)) IN
                      /\ check_filter(doc, cand.barber_id, cand.start_time,
                                      cand.end_time)
                            <=> check_filter(cand, doc.barber_id, doc.start_time,
                                             doc.end_time)
                      /\ create_filter(doc, cand.barber_id, cand.start_time,
                                       cand.end_time)
                            <=> create_filter(cand, doc.barber_id, doc.start_time,
                                              doc.end_time)

\* a booked appointment and a second one of the same barber that starts where
\* the first ends, the second just created
TouchingWitness ==
    /\ Len(appointment) = 2
    /\ appointment[1].barber_id = appointment[2].barber_id
    /\ appointment[1].status = "booked" /\ appointment[2].status = "booked"
    /\ appointment[2].start_time = appointment[1].end_time
    /\ response.op = "create" /\ response.code = 200 /\ response.req = <<2>>

\* C11: every persisted appointment has duration_min within 5..240 (a create
\* with a duration outside that range is refused before anything is written).
DurationWithinBounds ==
    \A i \in DOMAIN appointment :
        /\ appointment[i].duration_min >= MinDuration
        /\ appointment[i].duration_min <= MaxDuration

\* C12 as stated: an availability check with a non-positive duration_min
\* always answers available = true.
NonPositiveDurationAlwaysAvailable ==
    (response.op = "check" /\ response.code = 200 /\ response.req[3] <= 0)
        => response.body[1] = TRUE

\* some live appointment of the barber strictly contains the instant
LiveContains(barber_id, instant) ==
    \E i \in DOMAIN appointment :
        /\ appointment[i].barber_id = barber_id
        /\ appointment[i].status # "canceled"
        /\ appointment[i].start_time < instant
        /\ instant < appointment[i].end_time

\* C12 as amended: a check with a non-positive duration_min answers
\* available = true whenever no live appointment of the barber strictly
\* contains the start instant; with duration 0 and the start strictly inside a
\* live appointment it answers available = false.
NonPositiveDurationAvailability ==
    (response.op = "check" /\ response.code = 200 /\ response.req[3] <= 0)
        => /\ ~LiveContains(response.req[1], response.req[2])
                => response.body[1] = TRUE
           /\ (response.req[3] = 0 /\ LiveContains(response.req[1], response.req[2]))
                => response.body[1] = FALSE

\* a zero-length check at 5 has just been answered unavailable because of a
\* booked [0,10), and so has not been answered "always available"
NonPositiveDurationWitness ==
    /\ response.op = "check" /\ response.code = 200
    /\ response.req[2] = 5 /\ response.req[3] = 0
    /\ response.body[1] = FALSE
    /\ \E i \in DOMAIN appointment :
          /\ appointment[i].barber_id = response.req[1]
          /\ appointment[i].status = "booked"
          /\ appointment[i].start_time = 0 /\ appointment[i].end_time = 10

\* the stored appointments a listing with this barber filter is about
Listed(barber_id) ==
    {i \in DOMAIN appointment : barber_id = "" \/ appointment[i].barber_id = barber_id}

\* C13: a listing holds exactly one record per stored appointment matching the
\* barber filter, with customer_name = mask_name of the stored name,
\* customer_phone = mask_phone of the stored phone and notes null; replacing
\* the notes of any stored appointment leaves the listing the same.
ListingMasked ==
    (response.op = "list" /\ response.code = 200) =>
        LET barber_id == response.req[1]
            records == response.body
        IN /\ Len(records) = Cardinality(Listed(barber_id))
           /\ \A i \in Listed(barber_id) : \E k \in DOMAIN records : records[k].id = i
           /\ \A k \in DOMAIN records :
                 /\ records[k].id \in Listed(barber_id)
                 /\ records[k].customer_name =
                        mask_name(appointment[records[k].id].customer_name)
                 /\ records[k].customer_phone =
                        mask_phone(appointment[records[k].id].customer_phone)
                 /\ records[k].notes = Null
           /\ \A i \in DOMAIN appointment : \A nt \in ListNotes :
                 sanitized([appointment EXCEPT ![i].notes = nt], barber_id) = records

\* a listing filtered by b1 has just been returned while the store holds an
\* appointment of b1 with notes and one of b2
ListingWitness ==
    /\ response.op = "list" /\ response.code = 200
    /\ response.req[1] = "b1"
    /\ Len(response.body) = 1
    /\ response.body[1].customer_name = <<"J", "*", " ", "S", "*", "*", "*">>
    /\ \E i, j \in DOMAIN appointment :
          /\ appointment[i].barber_id = "b1" /\ appointment[i].notes # Null
          /\ appointment[i].customer_name = JoSmith
          /\ appointment[j].barber_id = "b2"

\* the maximal runs of non-whitespace characters of a string, in order
RECURSIVE WhitespaceTokens(_)
WhitespaceTokens(str) ==
    LET rest == lstrip(str)
    IN IF rest = <<>> THEN <<>>
       ELSE LET n == IF \A i \in DOMAIN rest : ~IsSpace(rest[i]) THEN Len(rest)
                     ELSE (CHOOSE i \in DOMAIN rest :
                              /\ IsSpace(rest[i])
                              /\ \A j \in DOMAIN rest : j < i => ~IsSpace(rest[j])) - 1
            IN <<SubSeq(rest, 1, n)>> \o WhitespaceTokens(SubSeq(rest, n + 1, Len(rest)))

HasAlphabeticToken(name) ==
    \E k \in DOMAIN WhitespaceTokens(name) :
        \A i \in DOMAIN WhitespaceTokens(name)[k] : WhitespaceTokens(name)[k][i] \in Letters

HasFourDigits(phone) == Len(SelectSeq(phone, IsDigit)) >= 4

\* "***-***-" followed by four digits
IsMaskedPhone(phone) ==
    /\ Len(phone) = 12
    /\ SubSeq(phone, 1, 8) = <<"*", "*", "*", "-", "*", "*", "*", "-">>
    /\ \A i \in 9..12 : IsDigit(phone[i])

\* C14 as stated: mask_phone of a non-empty phone with at least 4 digits
\* differs from the phone, and mask_name of a name with at least one
\* alphabetic token differs from the name.
MaskNeverIdentity ==
    /\ (response.op = "mask_phone" /\ HasFourDigits(response.req[1]))
            => response.body[1] # response.req[1]
    /\ (response.op = "mask_name" /\ HasAlphabeticToken(response.req[1]))
            => response.body[1] # response.req[1]

\* C14 as amended: mask_phone of a phone with at least 4 digits differs from
\* the phone unless the phone already has the masked form "***-***-dddd",
\* which mask_phone returns as it is; mask_name of a name with at least one
\* alphabetic token differs from the name.
MaskIdentityOnlyOnMasked ==
    /\ (response.op = "mask_phone" /\ HasFourDigits(response.req[1]))
            => (response.body[1] = response.req[1] <=> IsMaskedPhone(response.req[1]))
    /\ (response.op = "mask_name" /\ HasAlphabeticToken(response.req[1]))
            => response.body[1] # response.req[1]

\* mask_phone has just returned an already masked phone as it is
MaskIdentityWitness ==
    /\ response.op = "mask_phone"
    /\ response.req[1] = MaskedPhone4567
    /\ response.body[1] = MaskedPhone4567

\* what C15 says mask_name returns: the whitespace tokens masked and joined
MaskedTokens(name) ==
    LET tokens == WhitespaceTokens(name)
    IN IF tokens = <<>> THEN Customer
       ELSE join([i \in DOMAIN tokens |-> mask_part(tokens[i])], " ")

\* C15: mask_name returns "Customer" for a name without tokens and otherwise
\* the masked tokens, the tokens being split on any whitespace character.
MaskNameSplitsOnWhitespace ==
    response.op = "mask_name" => response.body[1] = MaskedTokens(response.req[1])

\* C16: in any interleaving with other requests, a step of list_appointments
\* or check_availability leaves the appointment, barber and service
\* collections unchanged.
ReadOnlyHandlers ==
    [][response'.op \in {"list", "check"}
            => /\ appointment' = appointment
               /\ barber' = barber
               /\ service' = service]_vars

\* a listing of a non-empty collection has just been returned while another
\* request is between its conflict lookup and its insert
ReadOnlyWitness ==
    /\ response.op = "list" /\ response.code = 200
    /\ Len(response.body) >= 1
    /\ \E q \in Requests : pc[q] = "create_insert"

\* C17: once seed_defaults has completed, every stored service named
\* "Haircut" has price 18, whatever was stored before.
HaircutPriceConverges ==
    response.op = "seed" =>
        \A i \in DOMAIN service : service[i].name = "Haircut" => service[i].price = 18

\* the names seed_defaults looks for
DefaultNames ==
    {default_barbers[k] : k \in DOMAIN default_barbers}
        \cup {default_services[k].name : k \in DOMAIN default_services}

\* C19: a run of seed_defaults after a completed first run creates no barber
\* and no service document: the number of documents with each default name,
\* and of documents at all, is the same after the run as before it.
SeedCreatesNothingAgain ==
    [][(startups >= 1 /\ startups' = startups + 1)
            => /\ Len(barber') = Len(barber)
               /\ Len(service') = Len(service)
               /\ \A name \in DefaultNames :
                     /\ count_documents(barber', name) = count_documents(barber, name)
                     /\ count_documents(service', name) = count_documents(service, name)]_vars

\* seed_defaults has just run a second time, straight after the first, and the
\* catalog holds the three default barbers and the three default services
SeedTwiceWitness ==
    /\ startups = 2 /\ response.op = "seed"
    /\ Len(barber) = 3 /\ Len(service) = 3
    /\ \A name \in {default_barbers[k] : k \in DOMAIN default_barbers} :
          count_documents(barber, name) = 1

\* C18: an error response from create_appointment or cancel_appointment means
\* the write did not happen: the step that answers with the error leaves the
\* collection unchanged and does not end a request that had already written
\* (a failure of the re-read after the write is answered as success).
ErrorMeansNoWrite ==
    [][(response'.op \in {"create", "cancel"} /\ response'.code = 500)
            => /\ appointment' = appointment
               /\ \A r \in Requests :
                     pc[r] \in {"create_reread", "cancel_reread"} => pc'[r] = pc[r]]_vars

\* the fields of an appointment that no operation may change
Identity(doc) ==
    <<doc.customer_name, doc.customer_phone, doc.barber_id, doc.service_name,
      doc.start_time, doc.end_time, doc.duration_min, doc.notes>>

\* C20: every step keeps every stored appointment under its id with its
\* customer, barber, service, start_time, end_time, duration_min and notes;
\* a stored appointment changes (in status and updated_at only) just in the
\* update of a cancel request for that id.
WriteFrame ==
    [][\A i \in DOMAIN appointment :
          /\ i \in DOMAIN appointment'
          /\ Identity(appointment'[i]) = Identity(appointment[i])
          /\ appointment'[i] # appointment[i]
                => \E r \in Requests :
                      /\ pc[r] = "idle" /\ pc'[r] = "cancel_reread"
                      /\ frame'[r].id = i]_vars

\* a cancel has just been answered with the canceled appointment while the
\* other stored appointment is still booked
WriteFrameWitness ==
    /\ response.op = "cancel" /\ response.code = 200
    /\ Len(appointment) = 2
    /\ \E i, j \in DOMAIN appointment :
          /\ i # j
          /\ response.req[1] = i
          /\ appointment[i].status = "canceled"
          /\ appointment[j].status = "booked"
          /\ appointment[j].updated_at = Null

====
